---------------------------- MODULE Spec2Model ----------------------------
(***************************************************************************)
(* subsample.py: pick a seeded random subset of an LJSpeech style dataset, *)
(* write the subset's metadata.csv and link or copy the subset's wavs.     *)
(*                                                                         *)
(* Text is modelled character by character: a string is a sequence of      *)
(* one-character strings, a file is a sequence of lines.                   *)
(***************************************************************************)
EXTENDS Integers, Sequences, FiniteSets, TLC

(***************************************************************************)
(* Bounds of the model.                                                    *)
(***************************************************************************)
MaxLines == 2
MaxCount == 2
MaxRuns == 2

(***************************************************************************)
(* Characters with a meaning for the reader or the writer.                 *)
(***************************************************************************)
PIPE == "|"
QUOTE == "\""
SPACE == " "

(***************************************************************************)
(* The lines a source metadata.csv is built from.                          *)
(***************************************************************************)
LineFull == <<"a", "|", "x", "|", "y">>
LineTwoFields == <<" ", "b", "|", "x", " ">>
LineSpecial == <<"b", "|", "\"", "|", "y", "|", "z">>
LineBlank == <<" ">>
LineOneField == <<"c">>
Lines == {LineFull, LineTwoFields, LineSpecial, LineBlank, LineOneField}
Files == UNION {[1..k -> Lines] : k \in 0..MaxLines}

Ids == {<<"a">>, <<"b">>}
Roots == {"S", "D"}
Counts == 1..MaxCount
Seeds == {7, 42}
OldFile == <<<<"o", "l", "d">>>>

Chars == {"a", "b", "c", "x", "y", "z", "o", "l", "d", PIPE, QUOTE, SPACE}
Text == Seq(Chars)

(***************************************************************************)
(* str.strip(): leading and trailing whitespace removed.                   *)
(***************************************************************************)
LStrip[s \in Text] ==
    IF s # <<>> /\ Head(s) = SPACE THEN LStrip[Tail(s)] ELSE s

RStrip[s \in Text] ==
    IF s # <<>> /\ s[Len(s)] = SPACE THEN RStrip[SubSeq(s, 1, Len(s) - 1)] ELSE s

Strip(s) == RStrip[LStrip[s]]

(***************************************************************************)
(* str.split(sep, maxsplit): at most maxsplit cuts, the rest left whole.   *)
(***************************************************************************)
Contains(s, c) == \E i \in 1..Len(s) : s[i] = c

FirstIndex(s, c) == CHOOSE i \in 1..Len(s) : s[i] = c /\ \A j \in 1..(i - 1) : s[j] # c

Split[s \in Text, sep \in Chars, maxsplit \in Nat] ==
    IF maxsplit = 0 \/ ~Contains(s, sep)
    THEN <<s>>
    ELSE <<SubSeq(s, 1, FirstIndex(s, sep) - 1)>>
         \o Split[SubSeq(s, FirstIndex(s, sep) + 1, Len(s)), sep, maxsplit - 1]

(***************************************************************************)
(* read_metadata: one row (pid, text, norm) per usable line.               *)
(***************************************************************************)
\* len(parts) < 3: two parts get the text again as normalized text, one
\* part is dropped.
RowsOfParts[parts \in Seq(Text)] ==
    IF Len(parts) = 3 THEN <<parts>>
    ELSE IF Len(parts) = 2 THEN <<<<parts[1], parts[2], parts[2]>>>>
    ELSE <<>>

\* line = line.strip(); if not line: continue; parts = line.split("|", 2)
ParseStripped[line \in Text] ==
    IF line = <<>> THEN <<>> ELSE RowsOfParts[Split[line, PIPE, 2]]

ParseLine(raw) == ParseStripped[Strip(raw)]

read_metadata[lines \in Seq(Text)] ==
    IF lines = <<>> THEN <<>>
    ELSE ParseLine(Head(lines)) \o read_metadata[Tail(lines)]

(***************************************************************************)
(* csv.writer(f, delimiter="|").writerow: the default dialect quotes a     *)
(* field that holds the delimiter or the quote character, and doubles the  *)
(* quote characters inside it.                                             *)
(***************************************************************************)
DoubleQuotes[s \in Text] ==
    IF s = <<>> THEN <<>>
    ELSE (IF Head(s) = QUOTE THEN <<QUOTE, QUOTE>> ELSE <<Head(s)>>) \o DoubleQuotes[Tail(s)]

NeedsQuoting(field) == Contains(field, PIPE) \/ Contains(field, QUOTE)

WriteField[field \in Text] ==
    IF NeedsQuoting(field) THEN <<QUOTE>> \o DoubleQuotes[field] \o <<QUOTE>> ELSE field

writerow[row \in Seq(Text)] ==
    WriteField[row[1]] \o <<PIPE>> \o WriteField[row[2]] \o <<PIPE>> \o WriteField[row[3]]

WriteRows(sel) == [k \in 1..Len(sel) |-> writerow[sel[k]]]

(***************************************************************************)
(* The three fields joined by the delimiter, nothing added: the format of  *)
(* the source file.                                                        *)
(***************************************************************************)
PlainLine(row) == row[1] \o <<PIPE>> \o row[2] \o <<PIPE>> \o row[3]

(***************************************************************************)
(* The random module's generator.  The Mersenne Twister is stood in for by *)
(* a full-period three-bit congruential generator; seed, getrandbits,      *)
(* _randbelow and sample are computed on it the way the library computes   *)
(* them.                                                                   *)
(***************************************************************************)
RngStates == 0..7
FreshStates == {1, 2}

Advance(s) == (5 * s + 3) % 8

SeedState(seed) == seed % 8

BitLength(m) == IF m < 2 THEN 1 ELSE IF m < 4 THEN 2 ELSE 3

GetRandBits(s, k) == s \div (2 ^ (3 - k))

\* _randbelow(m): draw bit_length(m) bits until the draw is below m.
\* The value and the generator's state after the draws.
RandBelow[s \in RngStates, m \in 1..7] ==
    IF GetRandBits(s, BitLength(m)) < m
    THEN <<GetRandBits(s, BitLength(m)), Advance(s)>>
    ELSE RandBelow[Advance(s), m]

\* sample(population, k) on a small population: pick from a pool, move the
\* pool's last element into the hole.  The picks and the state after them.
Picked(pool, j, more) == <<<<pool[j]>> \o more[1], more[2]>>

Remaining(pool, j) == SubSeq([pool EXCEPT ![j] = pool[Len(pool)]], 1, Len(pool) - 1)

SampleStep[pool \in Seq(Nat), rb \in RngStates \X RngStates] ==
    [j |-> rb[1] + 1, rest |-> Remaining(pool, rb[1] + 1), state |-> rb[2]]

SampleFrom[pool \in Seq(Nat), s \in RngStates, k \in Nat] ==
    IF k = 0 THEN <<<<>>, s>>
    ELSE LET step == SampleStep[pool, RandBelow[s, Len(pool)]]
         IN  Picked(pool, step.j, SampleFrom[step.rest, step.state, k - 1])

Range(total) == [i \in 1..total |-> i]

\* sorted(): ascending, by insertion.
Insert[sorted \in Seq(Nat), x \in Nat] ==
    IF sorted = <<>> THEN <<x>>
    ELSE IF x <= Head(sorted) THEN <<x>> \o sorted
    ELSE <<Head(sorted)>> \o Insert[Tail(sorted), x]

Sorted[s \in Seq(Nat)] == IF s = <<>> THEN <<>> ELSE Insert[Sorted[Tail(s)], Head(s)]

\* A bug: the requested count is ignored.
EffectiveCount_All(count, total) == total

\* n = min(args.count, total)
EffectiveCount(count, total) == IF count < total THEN count ELSE total

\* A bug: the generator is never seeded.
Reseed_Skipped(seed, state) == state

\* random.seed(args.seed): the generator's state no longer depends on what
\* it was.
Reseed(seed, state) == SeedState(seed)

\* random.sample(range(total), n): the picks, as positions 1..total, and
\* the generator's state after them.
Draw[state \in RngStates, total \in Nat, k \in Nat] == SampleFrom[Range(total), state, k]

(***************************************************************************)
(* State.  The filesystem is keyed by root directory: "S" is --src, and    *)
(* --dst is any root, "S" included.                                        *)
(***************************************************************************)
VARIABLES
    metaIsFile,   \* root -> whether {root}/metadata.csv is a file
    metaLines,    \* root -> the lines of {root}/metadata.csv
    wavsDir,      \* root -> whether {root}/wavs is a directory
    wavs,         \* root -> id -> content of {root}/wavs/{id}.wav
    args,         \* the parsed command line: dst, count, seed, copy
    rng,          \* the state of the random module's generator
    pc,           \* where main() is
    rows,         \* main's rows
    n,            \* main's n
    indices,      \* main's indices (positions 1..total)
    selected,     \* main's selected
    status,       \* one entry per record the loop has handled
    errors,       \* main's errors
    out,          \* the lines printed
    runs,         \* invocations so far
    history       \* what the finished invocations did

vars == <<metaIsFile, metaLines, wavsDir, wavs, args, rng, pc, rows, n, indices,
          selected, status, errors, out, runs, history>>

fsVars == <<metaIsFile, metaLines, wavsDir, wavs>>
localVars == <<rows, n, indices, selected, status, errors>>

SRC == "S"

Args == [dst : Roots, count : Counts, seed : Seeds, copy : BOOLEAN]

NoWavs == [id \in Ids |-> "none"]

\* A source tree: metadata.csv present or not, wavs/ present or not.
SrcTrees ==
    {[isFile |-> f, lines |-> l, dir |-> d, wavs |-> w] :
        f \in {TRUE}, l \in Files, d \in {TRUE}, w \in [Ids -> {"none", "wav"}]}
    \cup {[isFile |-> FALSE, lines |-> <<>>, dir |-> TRUE, wavs |-> NoWavs]}
    \cup {[isFile |-> TRUE, lines |-> <<LineFull>>, dir |-> FALSE, wavs |-> NoWavs]}
    \cup {[isFile |-> FALSE, lines |-> <<>>, dir |-> FALSE, wavs |-> NoWavs]}

\* A destination tree: absent, or left by something earlier.
DstTrees ==
    {[isFile |-> TRUE, lines |-> OldFile, dir |-> TRUE, wavs |-> w] :
        w \in [Ids -> {"none", "old"}]}
    \cup {[isFile |-> FALSE, lines |-> <<>>, dir |-> FALSE, wavs |-> NoWavs]}

\* The trees the runs of RerunSpec start from.
RerunFiles == UNION {[1..k -> {LineFull, LineTwoFields}] : k \in 0..MaxLines}
RerunSrcWavs == {[id \in Ids |-> "wav"], [id \in Ids |-> IF id = <<"a">> THEN "none" ELSE "wav"]}
RerunDstWavs == {NoWavs, [id \in Ids |-> IF id = <<"b">> THEN "old" ELSE "none"]}

Init ==
    /\ \E s \in SrcTrees, d \in DstTrees :
        /\ metaIsFile = [r \in Roots |-> IF r = SRC THEN s.isFile ELSE d.isFile]
        /\ metaLines = [r \in Roots |-> IF r = SRC THEN s.lines ELSE d.lines]
        /\ wavsDir = [r \in Roots |-> IF r = SRC THEN s.dir ELSE d.dir]
        /\ wavs = [r \in Roots |-> IF r = SRC THEN s.wavs ELSE d.wavs]
    /\ args \in Args
    /\ rng \in FreshStates
    /\ pc = "start"
    /\ rows = <<>>
    /\ n = 0
    /\ indices = <<>>
    /\ selected = <<>>
    /\ status = <<>>
    /\ errors = 0
    /\ out = <<>>
    /\ runs = 1
    /\ history = <<>>

(***************************************************************************)
(* The dataset-level checks.                                               *)
(***************************************************************************)
\* A bug: the output structure is prepared before the checks.
Abort_AfterMkdir(why) ==
    /\ pc' = "aborted"
    /\ out' = Append(out, <<"FATAL", why>>)
    /\ wavsDir' = [wavsDir EXCEPT ![args.dst] = TRUE]
    /\ UNCHANGED <<metaIsFile, metaLines, wavs, args, rng, localVars, runs, history>>

Abort(why) ==
    /\ pc' = "aborted"
    /\ out' = Append(out, <<"FATAL", why>>)
    /\ UNCHANGED <<fsVars, args, rng, localVars, runs, history>>

\* assert src_meta.is_file()
FailNoMetadata ==
    /\ pc = "start"
    /\ ~metaIsFile[SRC]
    /\ Abort("metadata.csv not found")

\* assert src_wavs.is_dir()
FailNoWavsDir ==
    /\ pc = "start"
    /\ metaIsFile[SRC]
    /\ ~wavsDir[SRC]
    /\ Abort("wavs dir not found")

\* rows = read_metadata(src_meta); total == 0: raise SystemExit
FailEmpty ==
    /\ pc = "start"
    /\ metaIsFile[SRC]
    /\ wavsDir[SRC]
    /\ read_metadata[metaLines[SRC]] = <<>>
    /\ Abort("metadata.csv is empty or invalid.")

LoadRows ==
    /\ pc = "start"
    /\ metaIsFile[SRC]
    /\ wavsDir[SRC]
    /\ read_metadata[metaLines[SRC]] # <<>>
    /\ rows' = read_metadata[metaLines[SRC]]
    /\ pc' = "checked"
    /\ UNCHANGED <<fsVars, args, rng, n, indices, selected, status, errors, out,
                   runs, history>>

(***************************************************************************)
(* n, the seeded sample, the selected rows.                                *)
(***************************************************************************)
\* What lines 46-52 compute from rows, the command line and the generator.
Sampling[drawn \in Seq(Nat) \X RngStates, rws \in Seq(Seq(Text))] ==
    [rng |-> drawn[2],
     indices |-> Sorted[drawn[1]],
     selected |-> [i \in 1..Len(drawn[1]) |-> rws[Sorted[drawn[1]][i]]]]

Sampled(rws, a, state) ==
    Sampling[Draw[Reseed(a.seed, state), Len(rws), EffectiveCount(a.count, Len(rws))], rws]

Sample ==
    /\ pc = "checked"
    /\ n' = EffectiveCount(args.count, Len(rows))
    /\ out' = Append(out, <<"Total", Len(rows), EffectiveCount(args.count, Len(rows)),
                            args.seed>>)
    /\ rng' = Sampled(rows, args, rng).rng
    /\ indices' = Sampled(rows, args, rng).indices
    /\ selected' = Sampled(rows, args, rng).selected
    /\ pc' = "sampled"
    /\ UNCHANGED <<fsVars, args, rows, status, errors, runs, history>>

(***************************************************************************)
(* dst_wavs.mkdir(parents=True, exist_ok=True), then the new metadata.csv, *)
(* opened for writing: whatever was there is replaced.                     *)
(***************************************************************************)
WriteOutput ==
    /\ pc = "sampled"
    /\ wavsDir' = [wavsDir EXCEPT ![args.dst] = TRUE]
    /\ metaIsFile' = [metaIsFile EXCEPT ![args.dst] = TRUE]
    /\ metaLines' = [metaLines EXCEPT ![args.dst] = WriteRows(selected)]
    /\ errors' = 0
    /\ pc' = "loop"
    /\ UNCHANGED <<wavs, args, rng, rows, n, indices, selected, status, out, runs,
                   history>>

(***************************************************************************)
(* The loop over selected: one action per way an iteration can go.         *)
(***************************************************************************)
Current == selected[Len(status) + 1]
CurrentId == Current[1]

InLoop == pc = "loop" /\ Len(status) < Len(selected)

\* A bug: the destination is never looked at.
DstExists_Never(pid) == FALSE

\* src.exists(), dst.exists()
SrcExists(pid) == wavs[SRC][pid] # "none"
DstExists(pid) == wavs[args.dst][pid] # "none"

Entry(pid, result, links, copies) ==
    [pid |-> pid, result |-> result, links |-> links, copies |-> copies,
     had |-> wavs[args.dst][pid]]

\* print("[WARN] Missing wav"); errors += 1; continue
MissingWav ==
    /\ InLoop
    /\ ~SrcExists(CurrentId)
    /\ out' = Append(out, <<"WARN", CurrentId>>)
    /\ errors' = errors + 1
    /\ status' = Append(status, Entry(CurrentId, "missing", 0, 0))
    /\ UNCHANGED <<fsVars, args, rng, pc, rows, n, indices, selected, runs, history>>

\* if dst.exists(): continue
SkipExisting ==
    /\ InLoop
    /\ SrcExists(CurrentId)
    /\ DstExists(CurrentId)
    /\ status' = Append(status, Entry(CurrentId, "skipped", 0, 0))
    /\ UNCHANGED <<fsVars, args, rng, pc, rows, n, indices, selected, errors, out,
                   runs, history>>

\* What os.link and shutil.copy2 can do: succeed, raise leaving nothing, and
\* for the copy raise after the destination was created.
LinkOutcomes == {"ok", "fail"}
CopyOutcomes == {"ok", "fail", "part"}

Left(first, second) == IF first = "part" \/ second = "part" THEN "part" ELSE "none"

\* A bug: the fallback copy is not inside a try of its own.
TransferResult_Uncaught(copy, l, c1, c2) ==
    IF copy
    THEN IF c1 = "ok"
         THEN [result |-> "copied", links |-> 0, copies |-> 1, content |-> "wav",
               pc |-> "loop"]
         ELSE IF c2 = "ok"
         THEN [result |-> "copied", links |-> 0, copies |-> 2, content |-> "wav",
               pc |-> "loop"]
         ELSE [result |-> "failed", links |-> 0, copies |-> 2,
               content |-> Left(c1, c2), pc |-> "crashed"]
    ELSE IF l = "ok"
         THEN [result |-> "linked", links |-> 1, copies |-> 0, content |-> "wav",
               pc |-> "loop"]
         ELSE IF c1 = "ok"
         THEN [result |-> "copied", links |-> 1, copies |-> 1, content |-> "wav",
               pc |-> "loop"]
         ELSE [result |-> "failed", links |-> 1, copies |-> 1,
               content |-> Left(c1, "fail"), pc |-> "crashed"]

\* The try block and its except clauses.  copy: args.copy; l: what os.link
\* does; c1, c2: what the first and the second call of shutil.copy2 do.
\* The outer except clause runs shutil.copy2 whichever call raised.
TransferResult(copy, l, c1, c2) ==
    IF copy
    THEN IF c1 = "ok"
         THEN [result |-> "copied", links |-> 0, copies |-> 1, content |-> "wav",
               pc |-> "loop"]
         ELSE IF c2 = "ok"
         THEN [result |-> "copied", links |-> 0, copies |-> 2, content |-> "wav",
               pc |-> "loop"]
         ELSE [result |-> "failed", links |-> 0, copies |-> 2,
               content |-> Left(c1, c2), pc |-> "loop"]
    ELSE IF l = "ok"
         THEN [result |-> "linked", links |-> 1, copies |-> 0, content |-> "wav",
               pc |-> "loop"]
         ELSE IF c1 = "ok"
         THEN [result |-> "copied", links |-> 1, copies |-> 1, content |-> "wav",
               pc |-> "loop"]
         ELSE [result |-> "failed", links |-> 1, copies |-> 1,
               content |-> Left(c1, "fail"), pc |-> "loop"]

\* A bug: a failed transfer prints nothing.
FailureLines_Silent(pid, result) == <<>>

\* print("[ERROR] Could not copy/link"); errors += 1
FailureLines(pid, result) == IF result = "failed" THEN <<<<"ERROR", pid>>>> ELSE <<>>

Transfer ==
    /\ InLoop
    /\ SrcExists(CurrentId)
    /\ ~DstExists(CurrentId)
    /\ \E l \in LinkOutcomes, c1 \in CopyOutcomes, c2 \in CopyOutcomes :
        LET r == TransferResult(args.copy, l, c1, c2)
        IN  /\ wavs' = [wavs EXCEPT ![args.dst][CurrentId] = r.content]
            /\ out' = out \o FailureLines(CurrentId, r.result)
            /\ errors' = IF r.result = "failed" THEN errors + 1 ELSE errors
            /\ status' = Append(status, Entry(CurrentId, r.result, r.links, r.copies))
            /\ pc' = r.pc
    /\ UNCHANGED <<metaIsFile, metaLines, wavsDir, args, rng, rows, n, indices,
                   selected, runs, history>>

\* kept = n - errors; print("Done. Wrote {kept} items")
Finish ==
    /\ pc = "loop"
    /\ Len(status) = Len(selected)
    /\ out' = Append(out, <<"Done", n - errors>>)
    /\ pc' = "done"
    /\ UNCHANGED <<fsVars, args, rng, localVars, runs, history>>

(***************************************************************************)
(* The tool is run again: a new process, with its own command line and a   *)
(* generator in whatever state the interpreter starts it in, on the        *)
(* filesystem the earlier runs left.                                       *)
(***************************************************************************)
Summary ==
    [run |-> runs, rows |-> rows, count |-> args.count, seed |-> args.seed,
     dst |-> args.dst, selected |-> selected, status |-> status,
     meta |-> metaLines[args.dst], wavs |-> wavs[args.dst]]

RunAgain ==
    /\ pc \in {"done", "aborted"}
    /\ runs < MaxRuns
    /\ history' = IF pc = "done" THEN Append(history, Summary) ELSE history
    /\ runs' = runs + 1
    /\ args' \in {a \in Args : a.count = args.count /\ a.seed = args.seed}
    /\ rng' \in FreshStates
    /\ pc' = "start"
    /\ rows' = <<>>
    /\ n' = 0
    /\ indices' = <<>>
    /\ selected' = <<>>
    /\ status' = <<>>
    /\ errors' = 0
    /\ out' = <<>>
    /\ UNCHANGED fsVars

Next ==
    \/ FailNoMetadata
    \/ FailNoWavsDir
    \/ FailEmpty
    \/ LoadRows
    \/ Sample
    \/ WriteOutput
    \/ MissingWav
    \/ SkipExisting
    \/ Transfer
    \/ Finish

\* One invocation of the tool, on any source and destination.
Spec == Init /\ [][Next]_vars

\* The sources RerunFiles gives, with or without their first wav, and a
\* destination that is empty or holds one asset; and the trees the checks reject.
SmallInit ==
    /\ Init
    /\ \/ metaLines[SRC] \in RerunFiles /\ wavs[SRC] \in RerunSrcWavs
       \/ ~metaIsFile[SRC]
       \/ ~wavsDir[SRC]
    /\ wavs["D"] \in RerunDstWavs

\* main() is sequential code: a step that can be taken is taken.
FairSpec == SmallInit /\ [][Next]_vars /\ WF_vars(Next)

RerunNext == Next \/ RunAgain

\* Invocations one after another, up to MaxRuns, each with the count and the
\* seed of the first.
RerunSpec == SmallInit /\ [][RerunNext]_vars

(***************************************************************************)
(* Properties.                                                             *)
(***************************************************************************)
HasSelection == pc \in {"sampled", "loop", "done"}
HasOutput == pc \in {"loop", "done"}
Min(a, b) == IF a <= b THEN a ELSE b
Printed(line) == \E i \in 1..Len(out) : out[i] = line
Fatal ==
    \/ ~metaIsFile[SRC]
    \/ ~wavsDir[SRC]
    \/ read_metadata[metaLines[SRC]] = <<>>

\* C1: with N >= 1 usable records and a positive count C, exactly min(C, N)
\* records are selected and written to the output metadata file, min(C, N)
\* is the count reported, and a run with C > N is not aborted for it.
C1_EffectiveCount ==
    /\ HasSelection =>
        /\ Len(rows) >= 1
        /\ Len(selected) = Min(args.count, Len(rows))
        /\ n = Min(args.count, Len(rows))
        /\ Printed(<<"Total", Len(rows), Min(args.count, Len(rows)), args.seed>>)
    /\ HasOutput => Len(metaLines[args.dst]) = Min(args.count, Len(rows))
    /\ pc = "aborted" => rows = <<>>

C1_Witness ==
    /\ pc = "done"
    /\ args.count > Len(rows)
    /\ Len(metaLines[args.dst]) = Len(rows)
    /\ Len(rows) >= 1

\* C2: the output metadata file holds exactly the selected records, in
\* ascending source order, each line the three fields as read joined by "|",
\* character for character.
C2_OutputVerbatim ==
    HasOutput =>
        /\ \A i \in 1..Len(indices), j \in 1..Len(indices) : i < j => indices[i] < indices[j]
        /\ selected = [k \in 1..Len(indices) |-> rows[indices[k]]]
        /\ metaLines[args.dst] = [k \in 1..Len(selected) |-> PlainLine(selected[k])]

\* C3: when a run finishes, every id listed in the output metadata file has
\* its asset in {dst}/wavs or has a [WARN] or [ERROR] line.
C3_NoSilentLoss ==
    pc = "done" =>
        \A k \in 1..Len(metaLines[args.dst]) :
            LET pid == selected[k][1]
            IN  \/ wavs[args.dst][pid] # "none"
                \/ Printed(<<"WARN", pid>>)
                \/ Printed(<<"ERROR", pid>>)

C3_Witness ==
    /\ pc = "done"
    /\ \E k \in 1..Len(status) :
        /\ status[k].result = "failed"
        /\ wavs[args.dst][status[k].pid] = "none"
    /\ \E k \in 1..Len(status) :
        /\ status[k].result = "missing"
        /\ wavs[args.dst][status[k].pid] = "none"

\* C4: a missing metadata.csv, a missing wavs directory or a file with no
\* usable record aborts the run in its first step, and that step writes
\* nothing: no directory made, no metadata.csv written, no asset placed.
C4_AbortWritesNothing ==
    [][/\ (pc = "start" /\ Fatal) => (pc' = "aborted" /\ UNCHANGED fsVars)
       /\ pc' = "aborted" => (pc = "start" /\ Fatal /\ UNCHANGED fsVars)]_vars

C4_Witness ==
    /\ pc = "aborted"
    /\ metaIsFile[SRC]
    /\ wavsDir[SRC]
    /\ args.dst = "D"
    /\ ~wavsDir["D"]
    /\ ~metaIsFile["D"]

\* The records handled so far that count as errors.
Failures == {k \in 1..Len(status) : status[k].result \in {"missing", "failed"}}

\* C5: once the checks have passed no record's failure stops the batch: the
\* records are handled in order, each ends materialized, skipped or failed,
\* each failure is counted, and the run reaches the summary.
C5_BatchNeverHalts ==
    /\ [](HasOutput =>
            /\ Len(status) <= Len(selected)
            /\ \A k \in 1..Len(status) :
                /\ status[k].pid = selected[k][1]
                /\ status[k].result \in {"linked", "copied", "skipped", "missing", "failed"}
            /\ errors = Cardinality(Failures))
    /\ [](pc = "done" =>
            /\ Len(status) = Len(selected)
            /\ Printed(<<"Done", n - Cardinality(Failures)>>))
    /\ (pc = "checked") ~> (pc = "done")

C5_Witness ==
    /\ pc = "done"
    /\ Len(status) >= 2
    /\ status[1].result = "failed"
    /\ status[2].result \in {"linked", "copied"}

\* The run before this one, when this one repeats it: same records read,
\* same count, same seed, same destination.
IsRerun ==
    /\ history # <<>>
    /\ LET prev == history[Len(history)]
       IN  /\ prev.run = runs - 1
           /\ prev.rows = rows
           /\ prev.count = args.count
           /\ prev.seed = args.seed
           /\ prev.dst = args.dst

Prev == history[Len(history)]

\* No link, no copy and no report for a record whose asset was there.
NoRetransfer ==
    \A k \in 1..Len(status) :
        status[k].had # "none" =>
            /\ status[k].links = 0
            /\ status[k].copies = 0
            /\ status[k].result \in {"skipped", "missing"}
            /\ status[k].result = "missing" => wavs[SRC][status[k].pid] = "none"

\* C6 as claimed: a re-run transfers nothing that is already there, reports
\* nothing because of it, and leaves the destination's assets and its metadata
\* file exactly as the first run left them.
C6_RerunChangesNothing ==
    (pc = "done" /\ IsRerun) =>
        /\ NoRetransfer
        /\ metaLines[args.dst] = Prev.meta
        /\ wavs[args.dst] = Prev.wavs

\* C6 as amended: the re-run transfers nothing that is already there, leaves
\* the metadata file and every asset of the first run as they were, and adds
\* an asset only for a record whose transfer failed in the first run.
C6_RerunKeepsWhatExists ==
    (pc = "done" /\ IsRerun) =>
        /\ NoRetransfer
        /\ metaLines[args.dst] = Prev.meta
        /\ \A id \in Ids :
            /\ Prev.wavs[id] # "none" => wavs[args.dst][id] = Prev.wavs[id]
            /\ wavs[args.dst][id] # Prev.wavs[id] =>
                \E k \in 1..Len(Prev.status) :
                    /\ Prev.status[k].pid = id
                    /\ Prev.status[k].result = "failed"

C6_Witness ==
    /\ pc = "done"
    /\ IsRerun
    /\ \E k \in 1..Len(status) :
        /\ status[k].result = "skipped"
        /\ Prev.status[k].result \in {"linked", "copied"}
    /\ \E k \in 1..Len(status) : Prev.status[k].result = "failed"

\* An earlier run that read the records, and had the count and the seed, of
\* this one.
SameInputs(h) == h.rows = rows /\ h.count = args.count /\ h.seed = args.seed

\* C7: two runs that read the same records with the same count and seed
\* select the same ids in the same order, whatever the destination is and
\* whatever ran before.
C7_SelectionReproducible ==
    /\ HasSelection =>
        \A i \in 1..Len(history) : SameInputs(history[i]) => history[i].selected = selected
    /\ \A i \in 1..Len(history), j \in 1..Len(history) :
        (/\ history[i].rows = history[j].rows
         /\ history[i].count = history[j].count
         /\ history[i].seed = history[j].seed) => history[i].selected = history[j].selected

C7_Witness ==
    /\ pc = "done"
    /\ Len(selected) < Len(rows)
    /\ \E i \in 1..Len(history) :
        /\ SameInputs(history[i])
        /\ history[i].dst # args.dst
        /\ history[i].wavs # wavs[args.dst]

\* C8: no id is on two lines of the output metadata file, so no id gets
\* two iterations of the loop.
C8_UniqueIds ==
    HasSelection =>
        \A i \in 1..Len(selected), j \in 1..Len(selected) :
            i # j => selected[i][1] # selected[j][1]

\* C9: a record sees at most one hard link attempt and at most one copy
\* attempt, and in copy mode no hard link attempt.
C9_SingleAttempts ==
    \A k \in 1..Len(status) :
        /\ status[k].links <= 1
        /\ status[k].copies <= 1
        /\ args.copy => status[k].links = 0

\* C10: no step of a run changes the source dataset: its metadata.csv and
\* its wavs directory stay as they were.
C10_SourceUntouched ==
    [][/\ metaIsFile'[SRC] = metaIsFile[SRC]
       /\ metaLines'[SRC] = metaLines[SRC]
       /\ wavsDir'[SRC] = wavsDir[SRC]
       /\ wavs'[SRC] = wavs[SRC]]_vars

=============================================================================
